---------------------------- MODULE Spec2Model ----------------------------
(* State-machine model of opendota_sdk/opendota_sdk.py: the OpenDotaClient  *)
(* transport (_request, post_request), the typed wrappers built on it and   *)
(* the four from_dict record constructors.                                  *)
(*                                                                         *)
(* Python values are tagged records so that values of different Python     *)
(* types can be compared: None, int, str, bool, list, dict, datetime.       *)
(* A dict is a function from its keys (strings) to Python values.           *)
(* A string built by an f-string is the sequence of its pieces.             *)
EXTENDS Integers, Sequences, FiniteSets, TLC

VARIABLES
    api_key,    \* OpenDotaClient.api_key
    timeout,    \* OpenDotaClient.timeout
    headers,    \* OpenDotaClient.session.headers
    tz,         \* the host's local-time offset from UTC, in seconds
    call,       \* the public operation in progress or just finished
    response,   \* what the network did with the HTTP call of that operation
    wire,       \* the HTTP calls the session issued during that operation
    result      \* what the operation returned or raised

vars == <<api_key, timeout, headers, tz, call, response, wire, result>>

-----------------------------------------------------------------------------
(* Bounds of the model.                                                    *)

\* Longest JSON array a list endpoint answers with.
MaxLen == 2

-----------------------------------------------------------------------------
(* Python values.                                                          *)

PyNone == [none |-> TRUE]
PyInt(i) == [int |-> i]
PyStr(s) == [str |-> s]
PyBool(b) == [bool |-> b]
PyList(s) == [list |-> s]
PyDict(f) == [dict |-> f]

EmptyDict == [k \in {} |-> PyNone]

\* Python truth value testing, as used by `if api_key:` and by
\* `... if data.get('profile', {}).get('last_login') else None`.
Truthy(v) ==
    IF "none" \in DOMAIN v THEN FALSE
    ELSE IF "int" \in DOMAIN v THEN v.int # 0
    ELSE IF "str" \in DOMAIN v THEN v.str # ""
    ELSE IF "bool" \in DOMAIN v THEN v.bool
    ELSE IF "list" \in DOMAIN v THEN Len(v.list) # 0
    ELSE IF "dict" \in DOMAIN v THEN DOMAIN v.dict # {}
    ELSE TRUE

\* dict.get(key, default)
get(data, key, default) == IF key \in DOMAIN data THEN data[key] ELSE default

\* The outcome of evaluating an expression or a call.
Return(v) == [kind |-> "return", value |-> v]
Raise(e, m) == [kind |-> "raise", exc |-> e, msg |-> m]

\* datetime.fromtimestamp(t) with no tz argument: the naive datetime that
\* reads the host's local wall clock at the instant t seconds after the
\* epoch. The calendar reading is kept as (day number, second of the day).
fromtimestamp(t) ==
    [datetime |-> [day |-> (t + tz) \div 86400, second |-> (t + tz) % 86400]]

-----------------------------------------------------------------------------
(* The record constructors.  Keyword arguments are evaluated in the order  *)
(* they are written, so the first failing subscript decides the error.     *)

\* Player.from_dict had it read the nested object by subscript.
Player_from_dict_Subscript(data) ==
    IF "profile" \notin DOMAIN data THEN Raise("KeyError", <<"profile">>)
    ELSE LET profile == data["profile"].dict
         IN  Return([
                 account_id     |-> get(data, "account_id", PyInt(0)),
                 personaname    |-> get(profile, "personaname", PyStr("")),
                 name           |-> get(profile, "name", PyNone),
                 avatar         |-> get(profile, "avatar", PyNone),
                 avatarmedium   |-> get(profile, "avatarmedium", PyNone),
                 avatarfull     |-> get(profile, "avatarfull", PyNone),
                 profileurl     |-> get(profile, "profileurl", PyNone),
                 last_login     |->
                     IF Truthy(get(profile, "last_login", PyNone))
                     THEN fromtimestamp(profile["last_login"].int)
                     ELSE PyNone,
                 loccountrycode |-> get(profile, "loccountrycode", PyNone)])

\* Player.from_dict
Player_from_dict(data) ==
    LET profile == get(data, "profile", PyDict(EmptyDict)).dict
    IN  Return([
            account_id     |-> get(data, "account_id", PyInt(0)),
            personaname    |-> get(profile, "personaname", PyStr("")),
            name           |-> get(profile, "name", PyNone),
            avatar         |-> get(profile, "avatar", PyNone),
            avatarmedium   |-> get(profile, "avatarmedium", PyNone),
            avatarfull     |-> get(profile, "avatarfull", PyNone),
            profileurl     |-> get(profile, "profileurl", PyNone),
            last_login     |->
                IF Truthy(get(profile, "last_login", PyNone))
                THEN fromtimestamp(data["profile"].dict["last_login"].int)
                ELSE PyNone,
            loccountrycode |-> get(profile, "loccountrycode", PyNone)])

\* Match.from_dict had it defaulted start_time like the other fields.
Match_from_dict_DefaultStart(data) ==
    IF "match_id" \notin DOMAIN data THEN Raise("KeyError", <<"match_id">>)
    ELSE Return([
            match_id      |-> data["match_id"],
            duration      |-> get(data, "duration", PyInt(0)),
            start_time    |-> fromtimestamp(get(data, "start_time", PyInt(0)).int),
            radiant_win   |-> get(data, "radiant_win", PyBool(FALSE)),
            game_mode     |-> get(data, "game_mode", PyInt(0)),
            lobby_type    |-> get(data, "lobby_type", PyInt(0)),
            human_players |-> get(data, "human_players", PyInt(0)),
            players       |-> get(data, "players", PyList(<<>>))])

\* Match.from_dict
Match_from_dict(data) ==
    IF "match_id" \notin DOMAIN data THEN Raise("KeyError", <<"match_id">>)
    ELSE IF "start_time" \notin DOMAIN data THEN Raise("KeyError", <<"start_time">>)
    ELSE Return([
            match_id      |-> data["match_id"],
            duration      |-> get(data, "duration", PyInt(0)),
            start_time    |-> fromtimestamp(data["start_time"].int),
            radiant_win   |-> get(data, "radiant_win", PyBool(FALSE)),
            game_mode     |-> get(data, "game_mode", PyInt(0)),
            lobby_type    |-> get(data, "lobby_type", PyInt(0)),
            human_players |-> get(data, "human_players", PyInt(0)),
            players       |-> get(data, "players", PyList(<<>>))])

\* Hero.from_dict
Hero_from_dict(data) ==
    IF "id" \notin DOMAIN data THEN Raise("KeyError", <<"id">>)
    ELSE IF "name" \notin DOMAIN data THEN Raise("KeyError", <<"name">>)
    ELSE IF "localized_name" \notin DOMAIN data
         THEN Raise("KeyError", <<"localized_name">>)
    ELSE IF "primary_attr" \notin DOMAIN data
         THEN Raise("KeyError", <<"primary_attr">>)
    ELSE IF "attack_type" \notin DOMAIN data
         THEN Raise("KeyError", <<"attack_type">>)
    ELSE Return([
            id             |-> data["id"],
            name           |-> data["name"],
            localized_name |-> data["localized_name"],
            primary_attr   |-> data["primary_attr"],
            attack_type    |-> data["attack_type"],
            roles          |-> get(data, "roles", PyList(<<>>))])

\* PlayerMatch.from_dict
PlayerMatch_from_dict(data) ==
    IF "match_id" \notin DOMAIN data THEN Raise("KeyError", <<"match_id">>)
    ELSE IF "start_time" \notin DOMAIN data THEN Raise("KeyError", <<"start_time">>)
    ELSE Return([
            match_id    |-> data["match_id"],
            player_slot |-> get(data, "player_slot", PyInt(0)),
            radiant_win |-> get(data, "radiant_win", PyBool(FALSE)),
            duration    |-> get(data, "duration", PyInt(0)),
            game_mode   |-> get(data, "game_mode", PyInt(0)),
            lobby_type  |-> get(data, "lobby_type", PyInt(0)),
            hero_id     |-> get(data, "hero_id", PyInt(0)),
            start_time  |-> fromtimestamp(data["start_time"].int),
            kills       |-> get(data, "kills", PyInt(0)),
            deaths      |-> get(data, "deaths", PyInt(0)),
            assists     |-> get(data, "assists", PyInt(0))])

-----------------------------------------------------------------------------
(* The HTTP library (requests >= 2.28.0, setup.py) as the client uses it.   *)

BASE_URL == "https://api.opendota.com/api"

\* The timeout __init__ takes when the caller gives none.
DefaultTimeout == 30

\* requests.exceptions: the classes an exception of each type is an instance
\* of.  ConnectTimeout derives from ConnectionError and Timeout; the
\* JSONDecodeError that Response.json() raises derives from
\* InvalidJSONError (a RequestException) and from json.JSONDecodeError (a
\* ValueError).
Bases(e) ==
    CASE e = "ConnectTimeout"  -> {"ConnectTimeout", "ConnectionError", "Timeout",
                                   "RequestException", "Exception"}
      [] e = "ReadTimeout"     -> {"ReadTimeout", "Timeout", "RequestException",
                                   "Exception"}
      [] e = "ConnectionError" -> {"ConnectionError", "RequestException", "Exception"}
      [] e = "HTTPError"       -> {"HTTPError", "RequestException", "Exception"}
      [] e = "JSONDecodeError" -> {"JSONDecodeError", "InvalidJSONError",
                                   "RequestException", "ValueError", "Exception"}
      [] e = "KeyError"        -> {"KeyError", "LookupError", "Exception"}
      [] OTHER                 -> {e, "Exception"}

isinstance(e, cls) == cls \in Bases(e.exc)

\* dict.update on the session headers.
update(h, u) ==
    [k \in DOMAIN h \cup DOMAIN u |-> IF k \in DOMAIN u THEN u[k] ELSE h[k]]

\* The headers a fresh requests.Session() carries.
SessionDefaultHeaders ==
    [k \in {"User-Agent", "Accept-Encoding", "Accept", "Connection"} |->
        CASE k = "User-Agent"      -> <<"python-requests">>
          [] k = "Accept-Encoding" -> <<"gzip, deflate">>
          [] k = "Accept"          -> <<"*/*">>
          [] k = "Connection"      -> <<"keep-alive">>]

\* str.lstrip('/') on an endpoint given as its pieces.
RECURSIVE lstrip(_)
lstrip(endpoint) ==
    IF endpoint # <<>> /\ Head(endpoint) = "/" THEN lstrip(Tail(endpoint))
    ELSE endpoint

\* The HTTP call a session method issues: the session's headers go with it.
HttpCall(method, url, params) ==
    [method |-> method, url |-> url, params |-> params,
     headers |-> headers, timeout |-> timeout]

\* Response.text
ResponseText(r) == IF "json" \in DOMAIN r.body THEN "<json text>" ELSE r.body.text

\* str(e) of the HTTPError that Response.raise_for_status() builds.
HTTPErrorText(r, url) ==
    <<ToString(r.status),
      IF r.status < 500 THEN " Client Error: " ELSE " Server Error: ",
      "<reason>", " for url: ">> \o url

\* session.get(...) / session.post(...), then response.raise_for_status(),
\* then response.json(): the body of the try statement of _request and of
\* post_request.  `net` is what the network does with the call.
TryBody(net, url) ==
    CASE net.net = "connect_timeout" ->
            [kind |-> "raise", exc |-> "ConnectTimeout", msg |-> <<"<connect timed out>">>]
      [] net.net = "read_timeout" ->
            [kind |-> "raise", exc |-> "ReadTimeout", msg |-> <<"<read timed out>">>]
      [] net.net = "connection_error" ->
            [kind |-> "raise", exc |-> "ConnectionError", msg |-> <<"<connection refused>">>]
      [] net.net = "response" ->
            IF 400 <= net.status /\ net.status < 600
            THEN [kind |-> "raise", exc |-> "HTTPError",
                  msg |-> HTTPErrorText(net, url), response |-> net]
            ELSE IF "json" \in DOMAIN net.body
            THEN Return(net.body.json)
            ELSE [kind |-> "raise", exc |-> "JSONDecodeError",
                  msg |-> <<"<expecting value>">>]

\* The except clauses of _request had the HTTPError one left the status out.
RequestExcept_NoStatus(e) ==
    IF isinstance(e, "Timeout")
    THEN Raise("OpenDotaAPIError", <<"Request timeout">>)
    ELSE IF isinstance(e, "HTTPError")
    THEN Raise("OpenDotaAPIError", <<"HTTP error: ", ResponseText(e.response)>>)
    ELSE IF isinstance(e, "RequestException")
    THEN Raise("OpenDotaAPIError", <<"Request failed: ">> \o e.msg)
    ELSE IF isinstance(e, "ValueError")
    THEN Raise("OpenDotaAPIError", <<"Invalid JSON response: ">> \o e.msg)
    ELSE e

\* The except clauses of _request, tried in the order written.
RequestExcept(e) ==
    IF isinstance(e, "Timeout")
    THEN Raise("OpenDotaAPIError", <<"Request timeout">>)
    ELSE IF isinstance(e, "HTTPError")
    THEN Raise("OpenDotaAPIError",
               <<"HTTP ", ToString(e.response.status), ": ", ResponseText(e.response)>>)
    ELSE IF isinstance(e, "RequestException")
    THEN Raise("OpenDotaAPIError", <<"Request failed: ">> \o e.msg)
    ELSE IF isinstance(e, "ValueError")
    THEN Raise("OpenDotaAPIError", <<"Invalid JSON response: ">> \o e.msg)
    ELSE e

\* _request had it tried the GET a second time after a failure.
_request_Retry(endpoint, params, net) ==
    LET url == <<BASE_URL, "/">> \o lstrip(endpoint)
        r   == TryBody(net, url)
    IN  [out  |-> IF r.kind = "return" THEN r ELSE RequestExcept(r),
         wire |-> IF r.kind = "return" THEN <<HttpCall("GET", url, params)>>
                  ELSE <<HttpCall("GET", url, params), HttpCall("GET", url, params)>>]

\* OpenDotaClient._request: the outcome and the HTTP calls issued.
_request(endpoint, params, net) ==
    LET url == <<BASE_URL, "/">> \o lstrip(endpoint)
        r   == TryBody(net, url)
    IN  [out  |-> IF r.kind = "return" THEN r ELSE RequestExcept(r),
         wire |-> <<HttpCall("GET", url, params)>>]

\* post_request had it caught requests.HTTPError only.
PostExcept_HTTPErrorOnly(e) ==
    IF isinstance(e, "HTTPError")
    THEN Raise("OpenDotaAPIError", <<"Request failed: ">> \o e.msg)
    ELSE e

\* The except clause of post_request.
PostExcept(e) ==
    IF isinstance(e, "RequestException")
    THEN Raise("OpenDotaAPIError", <<"Request failed: ">> \o e.msg)
    ELSE e

\* OpenDotaClient.post_request: the outcome and the HTTP calls issued.
PostRequestCall(match_id, net) ==
    LET url == <<BASE_URL, "/request/", ToString(match_id)>>
        r   == TryBody(net, url)
    IN  [out  |-> IF r.kind = "return" THEN r ELSE PostExcept(r),
         wire |-> <<HttpCall("POST", url, PyNone)>>]

\* The comprehension had it skipped the elements that fail to build.
RECURSIVE PlayerMatchList_SkipFailed(_)
PlayerMatchList_SkipFailed(data) ==
    IF data = <<>> THEN Return(<<>>)
    ELSE LET h == PlayerMatch_from_dict(Head(data).dict)
             t == PlayerMatchList_SkipFailed(Tail(data))
         IN  IF h.kind = "raise" THEN t ELSE Return(<<h.value>> \o t.value)

\* [X.from_dict(e) for e in data]: the elements are built in order and the
\* first one that raises ends the comprehension with that exception.
RECURSIVE PlayerMatchList(_)
PlayerMatchList(data) ==
    IF data = <<>> THEN Return(<<>>)
    ELSE LET h == PlayerMatch_from_dict(Head(data).dict)
         IN  IF h.kind = "raise" THEN h
             ELSE LET t == PlayerMatchList(Tail(data))
                  IN  IF t.kind = "raise" THEN t
                      ELSE Return(<<h.value>> \o t.value)

RECURSIVE HeroList(_)
HeroList(data) ==
    IF data = <<>> THEN Return(<<>>)
    ELSE LET h == Hero_from_dict(Head(data).dict)
         IN  IF h.kind = "raise" THEN h
             ELSE LET t == HeroList(Tail(data))
                  IN  IF t.kind = "raise" THEN t
                      ELSE Return(<<h.value>> \o t.value)

-----------------------------------------------------------------------------
(* The environment: what callers pass and what the network answers.        *)

ApiKeys == {PyNone, PyStr(""), PyStr("secret")}
Timeouts == {DefaultTimeout, 5}
TzOffsets == {-18000, 0, 3600}
Ids == {42}
EpochValues == {0, 1700000000}

\* Status codes below, inside and above the range raise_for_status rejects.
PassStatuses == {200, 399, 600}
ErrorStatuses == {400, 404, 499, 500, 599}

NotJson == [text |-> "<html>"]
ErrorBodies == {NotJson, [json |-> PyDict([error |-> PyStr("not found")])]}

\* Every way the network can treat one HTTP call whose successful answers
\* carry a body of `bodies`.
Network(bodies) ==
    {[net |-> "connect_timeout"], [net |-> "read_timeout"],
     [net |-> "connection_error"]}
    \cup {[net |-> "response", status |-> s, body |-> b] :
            s \in PassStatuses, b \in {[json |-> j] : j \in bodies} \cup {NotJson}}
    \cup {[net |-> "response", status |-> s, body |-> b] :
            s \in ErrorStatuses, b \in ErrorBodies}

\* A dict with the keys K, each key holding the value `full` gives it.
Restrict(full, K) == [k \in K |-> full[k]]

ProfileKeys == {"personaname", "name", "avatar", "avatarmedium", "avatarfull",
                "profileurl", "last_login", "loccountrycode"}

FullProfile(t) ==
    [personaname    |-> PyStr("foo"),
     name           |-> PyStr("Foo Bar"),
     avatar         |-> PyStr("a.jpg"),
     avatarmedium   |-> PyStr("a_medium.jpg"),
     avatarfull     |-> PyStr("a_full.jpg"),
     profileurl     |-> PyStr("https://steamcommunity.com/id/foo"),
     last_login     |-> PyInt(t),
     loccountrycode |-> PyStr("US")]

Profiles == {Restrict(FullProfile(t), K) : t \in EpochValues, K \in SUBSET ProfileKeys}

PlayerPayloads ==
    {PyDict(Restrict([account_id |-> PyInt(42), profile |-> PyDict(p)], K)) :
        p \in Profiles, K \in SUBSET {"account_id", "profile"}}

MatchKeys == {"match_id", "duration", "start_time", "radiant_win", "game_mode",
              "lobby_type", "human_players", "players"}

FullMatch(t) ==
    [match_id      |-> PyInt(7),
     duration      |-> PyInt(1800),
     start_time    |-> PyInt(t),
     radiant_win   |-> PyBool(TRUE),
     game_mode     |-> PyInt(22),
     lobby_type    |-> PyInt(7),
     human_players |-> PyInt(10),
     players       |-> PyList(<<PyDict([hero_id |-> PyInt(1)])>>)]

MatchPayloads ==
    {PyDict(Restrict(FullMatch(t), K)) : t \in EpochValues, K \in SUBSET MatchKeys}

HeroKeys == {"id", "name", "localized_name", "primary_attr", "attack_type", "roles"}

FullHero(i) ==
    [id             |-> PyInt(i),
     name           |-> PyStr("npc_dota_hero_antimage"),
     localized_name |-> PyStr("Anti-Mage"),
     primary_attr   |-> PyStr("agi"),
     attack_type    |-> PyStr("Melee"),
     roles          |-> PyList(<<PyStr("Carry")>>)]

\* Hero objects: complete ones, and ones lacking one or two keys.
HeroPayloads ==
    {PyDict(Restrict(FullHero(i), HeroKeys)) : i \in {1, 2}}
    \cup {PyDict(Restrict(FullHero(1), HeroKeys \ {k})) : k \in HeroKeys}
    \cup {PyDict(Restrict(FullHero(1), HeroKeys \ {"id", "name"}))}

PlayerMatchKeys == {"match_id", "player_slot", "radiant_win", "duration",
                    "game_mode", "lobby_type", "hero_id", "start_time", "kills",
                    "deaths", "assists"}

FullPlayerMatch(i, t) ==
    [match_id    |-> PyInt(i),
     player_slot |-> PyInt(128),
     radiant_win |-> PyBool(TRUE),
     duration    |-> PyInt(1800),
     game_mode   |-> PyInt(22),
     lobby_type  |-> PyInt(7),
     hero_id     |-> PyInt(1),
     start_time  |-> PyInt(t),
     kills       |-> PyInt(5),
     deaths      |-> PyInt(3),
     assists     |-> PyInt(9)]

\* Player-match objects: complete ones, and ones lacking one or two keys.
PlayerMatchPayloads ==
    {PyDict(Restrict(FullPlayerMatch(i, t), PlayerMatchKeys)) :
        i \in {1, 2}, t \in EpochValues}
    \cup {PyDict(Restrict(FullPlayerMatch(1, 0), PlayerMatchKeys \ {k})) :
            k \in {"match_id", "start_time", "hero_id", "kills"}}
    \cup {PyDict(Restrict(FullPlayerMatch(1, 0),
                          PlayerMatchKeys \ {"match_id", "start_time"}))}

\* The JSON arrays of at most MaxLen objects of S.
Arrays(S) ==
    {PyList(a) : a \in UNION {[1..n -> S] : n \in 0..MaxLen}}

\* What the untyped endpoints answer with.
RawBodies == {PyDict([job |-> PyDict([jobId |-> PyStr("abc")])]), PyList(<<>>)}

-----------------------------------------------------------------------------
(* The untyped wrappers: each is `return self._request(endpoint, params)`.  *)

ById(op, pre, suf) ==
    {[op |-> op, arg |-> PyInt(i), endpoint |-> <<pre, ToString(i), suf>>,
      params |-> PyNone] : i \in Ids}

NoArg(op, endpoint) ==
    {[op |-> op, arg |-> PyNone, endpoint |-> <<endpoint>>, params |-> PyNone]}

Kwargs(op, endpoint) ==
    {[op |-> op, arg |-> PyDict(kw), endpoint |-> <<endpoint>>, params |-> PyDict(kw)] :
        kw \in {EmptyDict, [less_than_match_id |-> PyInt(7)]}}

Passthrough ==
    ById("get_player_heroes", "players/", "/heroes")
    \cup ById("get_player_peers", "players/", "/peers")
    \cup ById("get_player_pros", "players/", "/pros")
    \cup ById("get_player_totals", "players/", "/totals")
    \cup ById("get_player_counts", "players/", "/counts")
    \cup {[op |-> "get_player_histograms", arg |-> PyInt(i),
           endpoint |-> <<"players/", ToString(i), "/histograms">>,
           params |-> PyDict([field |-> PyStr("kills")])] : i \in Ids}
    \cup ById("get_player_wardmap", "players/", "/wardmap")
    \cup ById("get_player_wordcloud", "players/", "/wordcloud")
    \cup ById("get_player_ratings", "players/", "/ratings")
    \cup ById("get_player_rankings", "players/", "/rankings")
    \cup Kwargs("get_public_matches", "publicMatches")
    \cup Kwargs("get_parsed_matches", "parsedMatches")
    \cup ById("get_hero_matches", "heroes/", "/matches")
    \cup ById("get_hero_matchups", "heroes/", "/matchups")
    \cup ById("get_hero_durations", "heroes/", "/durations")
    \cup ById("get_hero_players", "heroes/", "/players")
    \cup NoArg("get_hero_stats", "heroStats")
    \cup Kwargs("get_pro_matches", "proMatches")
    \cup NoArg("get_pro_players", "proPlayers")
    \cup NoArg("get_teams", "teams")
    \cup ById("get_team", "teams/", "")
    \cup ById("get_team_matches", "teams/", "/matches")
    \cup ById("get_team_players", "teams/", "/players")
    \cup ById("get_team_heroes", "teams/", "/heroes")
    \cup NoArg("get_leagues", "leagues")
    \cup ById("get_league", "leagues/", "")
    \cup ById("get_league_matches", "leagues/", "/matches")
    \cup ById("get_league_teams", "leagues/", "/teams")
    \cup {[op |-> "search_players", arg |-> PyStr("foo"), endpoint |-> <<"search">>,
           params |-> PyDict([q |-> PyStr("foo")])]}
    \cup {[op |-> "get_rankings", arg |-> PyStr("1"), endpoint |-> <<"rankings">>,
           params |-> PyDict([hero_id |-> PyStr("1")])]}
    \cup {[op |-> "get_benchmarks", arg |-> PyInt(i), endpoint |-> <<"benchmarks">>,
           params |-> PyDict([hero_id |-> PyInt(i)])] : i \in Ids}
    \cup NoArg("get_status", "status")
    \cup NoArg("get_health", "health")
    \cup {[op |-> "get_request", arg |-> PyStr("abc"),
           endpoint |-> <<"request/", "abc">>, params |-> PyNone]}

-----------------------------------------------------------------------------
(* The state machine.                                                      *)

NoCall == [op |-> "none"]
NoResponse == [net |-> "none"]
NoResult == [kind |-> "none"]

\* OpenDotaClient.__init__(api_key, timeout), on a host whose local time is
\* tz seconds ahead of UTC.
Init ==
    /\ api_key \in ApiKeys
    /\ timeout \in Timeouts
    /\ tz \in TzOffsets
    /\ headers =
         LET base == update(SessionDefaultHeaders,
                            [k \in {"User-Agent", "Accept"} |->
                                IF k = "User-Agent" THEN <<"OpenDota-Python-SDK/1.0">>
                                ELSE <<"application/json">>])
         IN  IF Truthy(api_key)
             THEN update(base, [Authorization |-> <<"Bearer ", api_key.str>>])
             ELSE base
    /\ call = NoCall
    /\ response = NoResponse
    /\ wire = <<>>
    /\ result = NoResult

\* The state a finished operation leaves: the configuration is untouched.
Finish(c, net, w, out) ==
    /\ call' = c
    /\ response' = net
    /\ wire' = w
    /\ result' = out
    /\ UNCHANGED <<api_key, timeout, headers, tz>>

get_player(account_id) ==
    /\ call = NoCall
    /\ \E net \in Network(PlayerPayloads) :
         LET r == _request(<<"players/", ToString(account_id)>>, PyNone, net)
         IN  Finish([op |-> "get_player", arg |-> PyInt(account_id)], net, r.wire,
                    IF r.out.kind = "raise" THEN r.out
                    ELSE Player_from_dict(r.out.value.dict))

get_player_matches(account_id, limit) ==
    /\ call = NoCall
    /\ \E net \in Network(Arrays(PlayerMatchPayloads)) :
         LET params == PyDict([k \in {"limit"} |-> PyInt(limit)])
             r == _request(<<"players/", ToString(account_id), "/matches">>, params, net)
             l == IF r.out.kind = "raise" THEN r.out ELSE PlayerMatchList(r.out.value.list)
         IN  Finish([op |-> "get_player_matches", arg |-> PyInt(account_id)], net, r.wire,
                    IF l.kind = "raise" THEN l ELSE Return(PyList(l.value)))

get_match(match_id) ==
    /\ call = NoCall
    /\ \E net \in Network(MatchPayloads) :
         LET r == _request(<<"matches/", ToString(match_id)>>, PyNone, net)
         IN  Finish([op |-> "get_match", arg |-> PyInt(match_id)], net, r.wire,
                    IF r.out.kind = "raise" THEN r.out
                    ELSE Match_from_dict(r.out.value.dict))

get_heroes ==
    /\ call = NoCall
    /\ \E net \in Network(Arrays(HeroPayloads)) :
         LET r == _request(<<"heroes">>, PyNone, net)
             l == IF r.out.kind = "raise" THEN r.out ELSE HeroList(r.out.value.list)
         IN  Finish([op |-> "get_heroes", arg |-> PyNone], net, r.wire,
                    IF l.kind = "raise" THEN l ELSE Return(PyList(l.value)))

\* Any of the wrappers that hand back what _request returns.
get_raw ==
    /\ call = NoCall
    /\ \E p \in Passthrough, net \in Network(RawBodies) :
         LET r == _request(p.endpoint, p.params, net)
         IN  Finish([op |-> p.op, arg |-> p.arg], net, r.wire, r.out)

post_request(match_id) ==
    /\ call = NoCall
    /\ \E net \in Network(RawBodies) :
         LET r == PostRequestCall(match_id, net)
         IN  Finish([op |-> "post_request", arg |-> PyInt(match_id)], net, r.wire, r.out)

\* The caller takes the value or the exception; nothing of the finished
\* operation stays in the client, which is ready for the next one.
CallerContinues ==
    /\ call # NoCall
    /\ call' = NoCall
    /\ response' = NoResponse
    /\ wire' = <<>>
    /\ result' = NoResult
    /\ UNCHANGED <<api_key, timeout, headers, tz>>

Next ==
    \/ \E i \in Ids : get_player(i)
    \/ \E i \in Ids : get_player_matches(i, 20)
    \/ \E i \in Ids : get_match(i)
    \/ get_heroes
    \/ get_raw
    \/ \E i \in Ids : post_request(i)
    \/ CallerContinues

Spec == Init /\ [][Next]_vars

-----------------------------------------------------------------------------
(* Vocabulary of the properties.                                           *)

Done == call # NoCall

TimedOut == response.net \in {"connect_timeout", "read_timeout"}

HttpError ==
    /\ response.net = "response"
    /\ 400 <= response.status /\ response.status <= 599

\* The HTTP call was answered with an accepted status and a JSON body.
JsonOk ==
    /\ response.net = "response"
    /\ ~(400 <= response.status /\ response.status <= 599)
    /\ "json" \in DOMAIN response.body

MalformedBody ==
    /\ response.net = "response"
    /\ ~(400 <= response.status /\ response.status <= 599)
    /\ "json" \notin DOMAIN response.body

Raised(e) == result.kind = "raise" /\ result.exc = e

Contains(msg, piece) == \E i \in 1..Len(msg) : msg[i] = piece

\* The fields the specification documents as required.
MatchRequired == {"match_id", "duration", "start_time", "radiant_win", "game_mode",
                  "lobby_type", "human_players"}
HeroRequired == {"id", "name", "localized_name", "primary_attr", "attack_type"}
PlayerMatchRequired == {"match_id", "start_time"}

\* The fields Match.from_dict reads by subscript, and those it defaults.
MatchSubscripted == {"match_id", "start_time"}
MatchDefaults ==
    [duration |-> PyInt(0), radiant_win |-> PyBool(FALSE), game_mode |-> PyInt(0),
     lobby_type |-> PyInt(0), human_players |-> PyInt(0)]

Lacks(d, req) == req \ DOMAIN d.dict

\* The first object of a JSON array that lacks a field of req (0: none does).
FirstLacking(a, req) ==
    IF \E i \in 1..Len(a) : Lacks(a[i], req) # {}
    THEN CHOOSE i \in 1..Len(a) :
            /\ Lacks(a[i], req) # {}
            /\ \A j \in 1..(i - 1) : Lacks(a[j], req) = {}
    ELSE 0

\* The object whose construction the finished call attempted and could have
\* failed on for a missing field of req: the body, or for a list endpoint
\* the first array element lacking one.  NoCall when there is none.
Attempted(op, req) ==
    IF ~(Done /\ call.op = op /\ JsonOk) THEN NoCall
    ELSE IF "list" \in DOMAIN response.body.json
    THEN LET i == FirstLacking(response.body.json.list, req)
         IN  IF i = 0 THEN NoCall ELSE response.body.json.list[i]
    ELSE response.body.json

\* The construction failed with an error naming a field the object lacks,
\* and naming that very field when it is the only one lacking.
FailsNaming(d, req) ==
    /\ Raised("KeyError")
    /\ Len(result.msg) = 1
    /\ result.msg[1] \in Lacks(d, req)

FailsOnMissing(op, req) ==
    LET d == Attempted(op, req)
    IN  (d # NoCall /\ Lacks(d, req) # {}) => FailsNaming(d, req)

\* The naive datetime reading UTC wall-clock time t seconds after the epoch.
UtcDatetime(t) == [datetime |-> [day |-> t \div 86400, second |-> t % 86400]]

-----------------------------------------------------------------------------
C2_TimeoutSpecific ==
    (Done /\ TimedOut) => result = Raise("OpenDotaAPIError", <<"Request timeout">>)

(* C3: whenever the HTTP call of a finished operation, GET or POST, was    *)
(* answered with a status in [400,599], the operation returned nothing and *)
(* raised OpenDotaAPIError with the status code in its message.            *)
C3_StatusInMessage ==
    (Done /\ HttpError) =>
        /\ Raised("OpenDotaAPIError")
        /\ Contains(result.msg, ToString(response.status))

C3_Witness ==
    /\ Done /\ call.op = "post_request"
    /\ HttpError /\ response.status = 599
    /\ Raised("OpenDotaAPIError")
    /\ Contains(result.msg, "599")

C5_NoProfile ==
    (Done /\ call.op = "get_player" /\ JsonOk
       /\ "profile" \notin DOMAIN response.body.json.dict)
        => /\ result.kind = "return"
           /\ result.value.personaname = PyStr("")
           /\ \A f \in ProfileKeys \ {"personaname"} : result.value[f] = PyNone

C5_Witness ==
    /\ Done /\ call.op = "get_player" /\ JsonOk
    /\ DOMAIN response.body.json.dict = {"account_id"}
    /\ result.kind = "return"
    /\ result.value.account_id = PyInt(42)
    /\ result.value.last_login = PyNone

(* C6: a player object with a populated `profile` is constructed, every    *)
(* field present in it appears in the Player with the payload's value, and *)
(* a present last_login, 0 included, becomes the time for that epoch.      *)
C6_ProfileRoundTrip ==
    (Done /\ call.op = "get_player" /\ JsonOk
       /\ "profile" \in DOMAIN response.body.json.dict
       /\ DOMAIN response.body.json.dict["profile"].dict # {})
        => LET d == response.body.json.dict
               p == d["profile"].dict
           IN  /\ result.kind = "return"
               /\ "account_id" \in DOMAIN d => result.value.account_id = d["account_id"]
               /\ \A f \in (DOMAIN p) \ {"last_login"} : result.value[f] = p[f]
               /\ "last_login" \in DOMAIN p =>
                      result.value.last_login = fromtimestamp(p["last_login"].int)

(* C7: the time value built from an epoch integer t (Match start_time,     *)
(* Player last_login, PlayerMatch start_time) is the UTC reading of the    *)
(* instant t, whatever the host's time zone.                               *)
C7_UtcTime ==
    /\ (Done /\ call.op = "get_match" /\ result.kind = "return")
         => result.value.start_time
              = UtcDatetime(response.body.json.dict["start_time"].int)
    /\ (Done /\ call.op = "get_player" /\ result.kind = "return"
          /\ result.value.last_login # PyNone)
         => result.value.last_login
              = UtcDatetime(response.body.json.dict["profile"].dict["last_login"].int)
    /\ (Done /\ call.op = "get_player_matches" /\ result.kind = "return")
         => \A i \in 1..Len(result.value.list) :
                result.value.list[i].start_time
                  = UtcDatetime(response.body.json.list[i].dict["start_time"].int)

(* C8: every finished public operation issued exactly one HTTP call, a     *)
(* POST for post_request and a GET for the others, whatever its outcome.   *)
C8_OneHttpCall ==
    Done => /\ Len(wire) = 1
            /\ wire[1].method = IF call.op = "post_request" THEN "POST" ELSE "GET"

C8_Witness ==
    /\ Done /\ call.op = "get_heroes"
    /\ Raised("KeyError")
    /\ Len(wire) = 1

(* C9: every HTTP call carries `Authorization: Bearer <credential>` if and *)
(* only if api_key was given as a string, the empty string included, and   *)
(* the headers are those set at construction.                              *)
C9_BearerIffCredential ==
    \A i \in 1..Len(wire) :
        /\ "Authorization" \in DOMAIN wire[i].headers <=> api_key # PyNone
        /\ "Authorization" \in DOMAIN wire[i].headers =>
               wire[i].headers["Authorization"] = <<"Bearer ", api_key.str>>
        /\ wire[i].headers = headers

(* C10: a list operation answered with an array of n objects either        *)
(* returns n records in the order of the array, or, exactly when some      *)
(* object lacks a required field, raises and returns no list.              *)
C10_AllOrNothing ==
    /\ (Done /\ call.op = "get_player_matches" /\ JsonOk) =>
         LET a == response.body.json.list
         IN  IF FirstLacking(a, PlayerMatchRequired) = 0
             THEN /\ result.kind = "return"
                  /\ Len(result.value.list) = Len(a)
                  /\ \A i \in 1..Len(a) :
                         result.value.list[i].match_id = a[i].dict["match_id"]
             ELSE result.kind = "raise"
    /\ (Done /\ call.op = "get_heroes" /\ JsonOk) =>
         LET a == response.body.json.list
         IN  IF FirstLacking(a, HeroRequired) = 0
             THEN /\ result.kind = "return"
                  /\ Len(result.value.list) = Len(a)
                  /\ \A i \in 1..Len(a) : result.value.list[i].id = a[i].dict["id"]
             ELSE result.kind = "raise"

C10_Witness ==
    /\ Done /\ call.op = "get_player_matches" /\ JsonOk
    /\ Len(response.body.json.list) = 2
    /\ FirstLacking(response.body.json.list, PlayerMatchRequired) = 2
    /\ result.kind = "raise"

=============================================================================
